---- MODULE Spec2Model ----
(***************************************************************************)
(* A state-machine model of Pix2SeqTask                                    *)
(* (official/projects/pix2seq/tasks/pix2seq_task.py).                      *)
(*                                                                         *)
(* The task object is modelled one concern at a time.  Every concern has   *)
(* its own specification over the same variables:                          *)
(*   SpecCkpt    build_model and initialize (checkpoint loading)           *)
(*   SpecLoss    build_losses                                              *)
(*   SpecInputs  build_inputs                                              *)
(*   SpecTrain   build_model, build_metrics and train_step                 *)
(*   SpecEval    build_metrics, validation_step, aggregate_logs and        *)
(*               reduce_aggregated_logs (the evaluation loop)              *)
(* The framework calls the file delegates to (tf.train.Checkpoint, the     *)
(* COCO evaluator, the optimizer) are modelled by the effect the task      *)
(* relies on; each such definition says so in its comment.                 *)
(***************************************************************************)
EXTENDS Integers, Sequences, FiniteSets, TLC

\* ------------------------------------------------------------------ bounds

\* The largest number of backbone configs in task_config.model.backbones.
MaxBackbones == 2

\* ------------------------------------------------------------------- state

VARIABLES
    phase,        \* where the task is in the concern being modelled
    task_config,  \* self._task_config: init_checkpoint_modules,
                  \* init_checkpoint, model.backbones
    model,        \* the tf_keras.Model build_model returned
    uvit_raises,  \* whether UVit.load_checkpoint (external) raises
    init_status,  \* what initialize did: outcome, restores, _get_ckpt calls
    loss_args,    \* the arguments of a build_losses call
    loss_value,   \* what the call returned
    params,       \* the DataConfig given to build_inputs
    oneof_strict, \* whether OneOfConfig.get (external) raises on a type
                  \* that names no field
    input_status, \* what build_inputs did: outcome, decoder, calls, dataset
    model_variables, \* the model's variables (0 the transformer, i >= 1
                  \* backbone i): how often each was updated
    optimizer,    \* the optimizer: its kind, loss scale and update count
    num_replicas, \* tf.distribute.get_strategy().num_replicas_in_sync
    metrics,      \* the metric objects the last build_metrics returned
    logs,         \* the logs the last step returned, <<>> once consumed
    last_op,      \* the operation that ran last
    coco_metric,  \* self.coco_metric: 0 while the attribute does not
                  \* exist, else the evaluator object it refers to
    evaluators,   \* the COCOEvaluator objects created so far: what each
                  \* has accumulated
    result_resets,\* whether COCOEvaluator.result (external) clears the
                  \* evaluator after computing
    agg_state,    \* the state the evaluation loop holds: 0 for None
    agg_outcome,  \* how the last aggregate_logs call ended
    reduced,      \* what the last reduce_aggregated_logs returned
    fed,          \* the step outputs passed since the last state=None call
    resets,       \* the reset_states calls the task made since (and in)
                  \* that call
    eval_built,   \* whether build_metrics(training=False) was ever called
    train_batch,  \* the batch of the last train_step
    step_trace,   \* the calls the last train_step made, in order
    applied       \* the (gradient, variable) pairs it gave apply_gradients

ckptVars == <<task_config, model, uvit_raises, init_status>>
lossVars == <<loss_args, loss_value>>
inputVars == <<params, oneof_strict, input_status>>
stepVars == <<model_variables, optimizer, num_replicas, metrics, logs, last_op>>
evalVars == <<coco_metric, evaluators, result_resets, agg_state, agg_outcome,
              reduced, fed, resets, eval_built>>

trainVars == <<train_batch, step_trace, applied>>

vars == <<phase, ckptVars, lossVars, inputVars, stepVars, evalVars, trainVars>>

\* ------------------------------------------------- values left untouched

\* The variables of build_losses while another concern is modelled.
LossIdle == loss_args = <<>> /\ loss_value = <<>>

\* The variables of build_inputs while another concern is modelled.
InputsIdle == params = <<>> /\ oneof_strict = FALSE /\ input_status = <<>>

\* The variables of the step functions while another concern is modelled.
StepsIdle ==
    /\ model_variables = <<>>
    /\ optimizer = <<>>
    /\ num_replicas = 1
    /\ metrics = <<>>
    /\ logs = <<>>
    /\ last_op = "none"

\* The variables of the evaluation loop while another concern is modelled.
EvalIdle ==
    /\ coco_metric = 0
    /\ evaluators = <<>>
    /\ result_resets = FALSE
    /\ agg_state = 0
    /\ agg_outcome = "none"
    /\ reduced = <<>>
    /\ fed = <<>>
    /\ resets = 0
    /\ eval_built = FALSE

\* The variables of train_step while another concern is modelled.
TrainIdle == train_batch = 0 /\ step_trace = <<>> /\ applied = <<>>

\* ------------------------------------------------------------- checkpoints

\* The strings a config may carry as a checkpoint path.  "" is "not set".
\* "full.ckpt" holds a value for every object of the model it is restored
\* into; "part.ckpt" leaves some existing object without a value;
\* "full_dir" and "part_dir" are directories whose latest checkpoints are
\* "full_dir/ckpt-2" (complete) and "part_dir/ckpt-7" (incomplete).  Every
\* configured path exists; a directory without any checkpoint is not among
\* the modelled inputs.
CkptPaths == {"", "full.ckpt", "part.ckpt", "full_dir", "part_dir"}

\* tf.io.gfile.isdir
isdir(path) == path \in {"full_dir", "part_dir"}

\* tf.train.latest_checkpoint: the newest checkpoint of a directory.
latest_checkpoint(dir) ==
    IF dir = "full_dir" THEN "full_dir/ckpt-2" ELSE "part_dir/ckpt-7"

\* Pix2SeqTask._get_ckpt
_get_ckpt(ckpt_dir_or_file) ==
    IF isdir(ckpt_dir_or_file)
    THEN latest_checkpoint(ckpt_dir_or_file)
    ELSE ckpt_dir_or_file

\* Whether status.assert_existing_objects_matched() passes after
\* restore(file): every object that exists in the model found a value.
ExistingObjectsMatched(file) == file \in {"full.ckpt", "full_dir/ckpt-2"}

\* ----------------------------------------------------------------- configs

InitCheckpointModules == {"all", "partial", "", "backbone", "decoder"}

BackboneTypes == {"resnet", "uvit"}

\* One entry of task_config.model.backbones.
BackboneConfigs(freezes) ==
    [init_checkpoint : CkptPaths, type : BackboneTypes, freeze : freezes]

SeqsUpTo(S, n) == UNION {[1..k -> S] : k \in 0..n}

TaskConfigs(freezes) ==
    [init_checkpoint_modules : InitCheckpointModules,
     init_checkpoint : CkptPaths,
     backbones : SeqsUpTo(BackboneConfigs(freezes), MaxBackbones)]

\* The model before build_model ran.
NoModel == [built |-> FALSE, backbones |-> <<>>, restored_from |-> <<>>,
            head_restored_from |-> "init"]

NoInit == [outcome |-> "not run", restores |-> <<>>, lookups |-> <<>>]

\* -------------------------------------------------------------- build_model

\* _build_backbones_and_endpoint_names: one backbone per config, in order,
\* trainable unless the config freezes it.
_build_backbones(config) ==
    [i \in 1..Len(config.backbones) |->
        [type |-> config.backbones[i].type,
         trainable |-> ~config.backbones[i].freeze]]

\* build_model: the Pix2Seq model over those backbones.  restored_from[i]
\* is the checkpoint backbone i's weights were last restored from, "init"
\* for freshly initialised weights; head_restored_from is the same for the
\* rest of the model (the transformer).
build_model ==
    /\ phase = "configured"
    /\ model' = [built |-> TRUE,
                 backbones |-> _build_backbones(task_config),
                 restored_from |->
                     [i \in 1..Len(task_config.backbones) |-> "init"],
                 head_restored_from |-> "init"]
    /\ model_variables' = [v \in 0..Len(task_config.backbones) |-> 0]
    /\ phase' = "built"
    /\ UNCHANGED <<task_config, uvit_raises, init_status, lossVars, inputVars,
                   optimizer, num_replicas, metrics, logs, last_op, evalVars,
                   trainVars>>

\* --------------------------------------------------------------- initialize

\* A call of tf.train.Checkpoint(...).restore(file) or of
\* backbone.load_checkpoint(file).  target 0 is the whole model
\* (model.checkpoint_items), target i >= 1 is model.backbones[i].
Restore(op, target, file) == [op |-> op, target |-> target, ckpt |-> file]

\* Line 99.
IsDeprecatedModules(cfg) == cfg.init_checkpoint_modules = "backbone"

\* The accepted list without its '' entry.
IsUnsupportedModules_NoEmpty(cfg) ==
    cfg.init_checkpoint_modules \notin {"all", "partial"}

\* Line 105.
IsUnsupportedModules(cfg) ==
    cfg.init_checkpoint_modules \notin {"all", "partial", ""}

\* all(...) where the code has any(...).
AnyBackboneCheckpoint_All(cfg) ==
    \A i \in 1..Len(cfg.backbones) : cfg.backbones[i].init_checkpoint # ""

\* any([b.init_checkpoint for b in backbones]), line 111-113.
AnyBackboneCheckpoint(cfg) ==
    \E i \in 1..Len(cfg.backbones) : cfg.backbones[i].init_checkpoint # ""

\* Line 111.
GlobalAndBackbone(cfg) == cfg.init_checkpoint # "" /\ AnyBackboneCheckpoint(cfg)

\* The assertion made whatever the modules are.
GlobalAsserts_Always(cfg) == TRUE

\* Line 123: the global restore asserts unless the modules are 'partial'.
GlobalAsserts(cfg) == cfg.init_checkpoint_modules # "partial"

\* Lines 119-127: the global restore.
RestoreGlobal(cfg) ==
    LET global_ckpt_file == _get_ckpt(cfg.init_checkpoint)
        done == [restores |-> <<Restore("restore", 0, global_ckpt_file)>>,
                 lookups |-> <<cfg.init_checkpoint>>]
    IN  IF GlobalAsserts(cfg) /\ ~ExistingObjectsMatched(global_ckpt_file)
        THEN [outcome |-> "AssertionError"] @@ done
        ELSE [outcome |-> "ok"] @@ done

\* The loop without its 'continue'.
SkipBackbone_Never(backbone_config) == FALSE

\* Line 134: a backbone without a checkpoint is passed over.
SkipBackbone(backbone_config) == backbone_config.init_checkpoint = ""

\* Lines 131-149: the loop over zip(config backbones, model backbones), from
\* pair i on; n is the length of the shorter list.  A uvit backbone goes
\* through its own load_checkpoint (line 141), which is external and may
\* raise; any other backbone is restored and asserted (lines 143-145).
RECURSIVE RestoreBackbones(_, _, _, _, _)
RestoreBackbones(cfg, i, n, raises, sofar) ==
    IF i > n THEN [outcome |-> "ok"] @@ sofar
    ELSE
      LET backbone_config == cfg.backbones[i] IN
      IF SkipBackbone(backbone_config)
      THEN RestoreBackbones(cfg, i + 1, n, raises, sofar)
      ELSE
        LET backbone_init_ckpt == _get_ckpt(backbone_config.init_checkpoint)
            uvit == backbone_config.type = "uvit"
            now == [restores |->
                      Append(sofar.restores,
                             Restore(IF uvit THEN "load_checkpoint"
                                     ELSE "restore", i, backbone_init_ckpt)),
                    lookups |->
                      Append(sofar.lookups, backbone_config.init_checkpoint)]
        IN  IF uvit /\ raises
            THEN [outcome |-> "load_checkpoint error"] @@ now
            ELSE IF ~uvit /\ ~ExistingObjectsMatched(backbone_init_ckpt)
            THEN [outcome |-> "AssertionError"] @@ now
            ELSE RestoreBackbones(cfg, i + 1, n, raises, now)

Min(a, b) == IF a < b THEN a ELSE b

\* Pix2SeqTask.initialize as a function of the config, the model and the
\* behaviour of the external UVit.load_checkpoint.
InitializeResult(cfg, mdl, raises) ==
    IF IsDeprecatedModules(cfg)
    THEN [outcome |-> "ValueError: deprecated"] @@ NoInit
    ELSE IF IsUnsupportedModules(cfg)
    THEN [outcome |-> "ValueError: unsupported"] @@ NoInit
    ELSE IF GlobalAndBackbone(cfg)
    THEN [outcome |-> "ValueError: global and backbone"] @@ NoInit
    ELSE IF cfg.init_checkpoint # ""
    THEN RestoreGlobal(cfg)
    ELSE RestoreBackbones(cfg, 1, Min(Len(cfg.backbones), Len(mdl.backbones)),
                          raises, [restores |-> <<>>, lookups |-> <<>>])

\* The model's weights after the restores of a run: a restore overwrites
\* the target's weights with the checkpoint's (also when the assertion that
\* follows it fails).
RECURSIVE ApplyRestores(_, _)
ApplyRestores(mdl, restores) ==
    IF restores = <<>> THEN mdl
    ELSE
      LET r == Head(restores)
          next ==
            IF r.target = 0
            THEN [mdl EXCEPT !.restored_from =
                                [i \in DOMAIN mdl.restored_from |-> r.ckpt],
                             !.head_restored_from = r.ckpt]
            ELSE [mdl EXCEPT !.restored_from[r.target] = r.ckpt]
      IN  ApplyRestores(next, Tail(restores))

initialize ==
    /\ phase = "built"
    /\ init_status' = InitializeResult(task_config, model, uvit_raises)
    /\ model' = ApplyRestores(model, init_status'.restores)
    /\ phase' = "initialized"
    /\ UNCHANGED <<task_config, uvit_raises, lossVars, inputVars, stepVars,
                   evalVars, trainVars>>

\* ------------------------------------------------------------ SpecCkpt

InitCkpt ==
    /\ phase = "configured"
    /\ task_config \in TaskConfigs({FALSE})
    /\ model = NoModel
    /\ uvit_raises \in BOOLEAN
    /\ init_status = NoInit
    /\ LossIdle
    /\ InputsIdle
    /\ StepsIdle
    /\ EvalIdle
    /\ TrainIdle

NextCkpt == build_model \/ initialize

SpecCkpt == InitCkpt /\ [][NextCkpt]_vars

\* ------------------------------------------------------------- build_losses

\* float32 values as far as build_losses tells them apart: a finite value
\* is the fraction n/d of hundredths (d > 0, in lowest terms), and there are
\* NaN and +infinity.  Rounding is not modelled.
NaN == [k |-> "nan", n |-> 0, d |-> 1]
Inf == [k |-> "inf", n |-> 0, d |-> 1]

Abs(x) == IF x < 0 THEN -x ELSE x

RECURSIVE GCD(_, _)
GCD(a, b) == IF b = 0 THEN a ELSE GCD(b, a % b)

\* The finite value n/d, d > 0.
Fin(n, d) ==
    LET g == GCD(Abs(n), d) IN [k |-> "fin", n |-> n \div g, d |-> d \div g]

\* x * y, IEEE: NaN and 0 * infinity are NaN.
FMul(x, y) ==
    IF x.k = "nan" \/ y.k = "nan" THEN NaN
    ELSE IF x.k = "inf" \/ y.k = "inf"
    THEN IF (x.k = "fin" /\ x.n = 0) \/ (y.k = "fin" /\ y.n = 0)
         THEN NaN ELSE Inf
    ELSE Fin(x.n * y.n, x.d * y.d)

\* x + y for values that are never negative.
FAdd(x, y) ==
    IF x.k = "nan" \/ y.k = "nan" THEN NaN
    ELSE IF x.k = "inf" \/ y.k = "inf" THEN Inf
    ELSE Fin(x.n * y.d + y.n * x.d, x.d * y.d)

\* x / y for values that are never negative: 0/0 and inf/inf are NaN, a
\* positive value over 0 is +infinity.
FDiv(x, y) ==
    IF x.k = "nan" \/ y.k = "nan" THEN NaN
    ELSE IF x.k = "inf" THEN (IF y.k = "inf" THEN NaN ELSE Inf)
    ELSE IF y.k = "inf" THEN Fin(0, 1)
    ELSE IF y.n = 0 THEN (IF x.n = 0 THEN NaN ELSE Inf)
    ELSE Fin(x.n * y.d, x.d * y.n)

\* tf.reduce_sum / tf.add_n of a sequence of values.
RECURSIVE FSum(_)
FSum(xs) == IF xs = <<>> THEN Fin(0, 1) ELSE FAdd(Head(xs), FSum(Tail(xs)))

\* task_config.model.vocab_size: tokens are 0 .. vocab_size - 1.
vocab_size == 2

\* tf.one_hot(target, vocab_size): all zeros for a token outside the
\* vocabulary.
one_hot(target) == [c \in 0..vocab_size - 1 |-> IF c = target THEN 1 ELSE 0]

\* ln(1 + e^(-gap)) in hundredths, for the gaps between two logits the
\* model uses.
Softplus100(gap) == CASE gap = 0 -> 69 [] gap = 1 -> 31 [] gap = 2 -> 13
                      [] gap = 3 -> 5 [] OTHER -> 2

\* log(sum(exp(logits))) in hundredths for a two-token vocabulary.
LogSumExp100(logits) ==
    LET hi == IF logits[1] > logits[2] THEN logits[1] ELSE logits[2]
    IN  100 * hi + Softplus100(Abs(logits[1] - logits[2]))

\* CategoricalCrossentropy(from_logits=True, reduction=NONE) at one
\* position: -sum_c one_hot[c] * log_softmax(logits)[c].  output.finite is
\* FALSE when a logit is NaN or infinite, which makes the value NaN.
\* logits[c + 1] is the logit of token c.
CrossEntropy(target, output) ==
    IF ~output.finite THEN NaN
    ELSE LET lse == LogSumExp100(output.logits)
             hot == one_hot(target)
         IN  FSum([c \in 1..vocab_size |->
                     Fin(hot[c - 1] * (lse - 100 * output.logits[c]), 1)])

\* Line 210: 'tf.add_n(aux_losses) if aux_losses else 0.0'; None and the
\* empty list are both <<>>.
AuxTotal(aux_losses) ==
    IF aux_losses = <<>> THEN Fin(0, 1) ELSE FSum(aux_losses)

\* The mean over the positions instead of the division by the summed
\* weights.
Normalise_ByCount(total, weights) == FDiv(total, Fin(Len(weights), 1))

\* Line 208: the division by tf.reduce_sum(weights).
Normalise(total, weights) ==
    FDiv(total, FSum([i \in 1..Len(weights) |-> Fin(weights[i], 1)]))

\* Line 208: loss * weights at one position.
Weighted(loss, weight) == FMul(loss, Fin(weight, 1))

\* Pix2SeqTask.build_losses.  labels.targets and labels.weights have one
\* entry per position of outputs.
build_losses(outputs, labels, aux_losses) ==
    LET loss == [i \in 1..Len(outputs) |->
                    CrossEntropy(labels.targets[i], outputs[i])]
        weighted == [i \in 1..Len(outputs) |->
                        Weighted(loss[i], labels.weights[i])]
        mean == Normalise(FSum(weighted), labels.weights)
    IN  FAdd(mean, AuxTotal(aux_losses))

\* ------------------------------------------------------------ SpecLoss

\* The longest token sequence of a batch.
MaxSeqLen == 2

\* The logits of one position: finite ones over the two tokens, or a
\* position that holds a NaN or an infinity.
Outputs ==
    [logits : {<<0, 0>>, <<2, 0>>, <<0, 2>>, <<1, 2>>}, finite : {TRUE}]
      \cup {[logits |-> <<0, 0>>, finite |-> FALSE]}

\* Target tokens: the two of the vocabulary.
Targets == 0..vocab_size - 1

\* Token weights: 0 for padding, 1, and a larger eos_token_weight.
Weights == {0, 1, 2}

\* model.losses: none, one or two regularisation terms (in hundredths).
AuxLosses == {<<>>, <<Fin(50, 1)>>, <<Fin(50, 1), Fin(25, 1)>>}

LossArgs ==
    UNION {[outputs : [1..n -> Outputs],
            targets : [1..n -> Targets],
            weights : [1..n -> Weights],
            aux_losses : AuxLosses] : n \in 1..MaxSeqLen}

\* A call of build_losses on the chosen arguments.
CallBuildLosses ==
    /\ phase = "loss: ready"
    /\ loss_value' = build_losses(loss_args.outputs,
                                  [targets |-> loss_args.targets,
                                   weights |-> loss_args.weights],
                                  loss_args.aux_losses)
    /\ phase' = "loss: returned"
    /\ UNCHANGED <<loss_args, ckptVars, inputVars, stepVars, evalVars,
                   trainVars>>

CkptIdle ==
    /\ task_config = <<>>
    /\ model = NoModel
    /\ uvit_raises = FALSE
    /\ init_status = NoInit

InitLoss ==
    /\ phase = "loss: ready"
    /\ loss_args \in LossArgs
    /\ loss_value = <<>>
    /\ CkptIdle
    /\ InputsIdle
    /\ StepsIdle
    /\ EvalIdle
    /\ TrainIdle

NextLoss == CallBuildLosses

SpecLoss == InitLoss /\ [][NextLoss]_vars

\* ------------------------------------------------------------- build_inputs

\* The branch of line 156 taken only when no decoder type is known.
UseTfds_TypeFirst(p) ==
    /\ p.tfds_name # ""
    /\ p.decoder.type \notin {"simple_decoder", "label_map_decoder"}

\* Line 156: 'if params.tfds_name'.
UseTfds(p) == p.tfds_name # ""

\* Lines 156-172: the decoder.  calls lists the constructors and config
\* reads made, in order.  params.decoder.get() (line 159) is external: on a
\* type that names no field of the one-of config it returns or, when
\* strict, raises ValueError itself.
SelectDecoder(p, strict) ==
    IF UseTfds(p)
    THEN [outcome |-> "ok",
          decoder |-> [kind |-> "tfds", of |-> p.tfds_name],
          calls |-> <<"tfds_factory.get_detection_decoder">>]
    ELSE IF p.decoder.type = "simple_decoder"
    THEN [outcome |-> "ok",
          decoder |-> [kind |-> "TfExampleDecoder",
                       of |-> p.decoder.regenerate_source_id],
          calls |-> <<"decoder.get", "TfExampleDecoder">>]
    ELSE IF p.decoder.type = "label_map_decoder"
    THEN [outcome |-> "ok",
          decoder |-> [kind |-> "TfExampleDecoderLabelMap",
                       of |-> p.decoder.regenerate_source_id],
          calls |-> <<"decoder.get", "TfExampleDecoderLabelMap">>]
    ELSE IF strict /\ p.decoder.type # "None"
    THEN [outcome |-> "ValueError: not a valid choice",
          decoder |-> <<>>, calls |-> <<"decoder.get">>]
    ELSE [outcome |-> "ValueError: Unknown decoder type",
          decoder |-> <<>>, calls |-> <<"decoder.get">>]

\* Pix2SeqTask.build_inputs: the decoder, then the parser (line 174), the
\* reader over decoder.decode and parser.parse_fn(is_training) (line 186)
\* and the dataset it reads (line 192).
BuildInputsResult(p, strict) ==
    LET sel == SelectDecoder(p, strict) IN
    IF sel.outcome # "ok" THEN sel @@ [dataset |-> <<>>]
    ELSE [outcome |-> "ok",
          decoder |-> sel.decoder,
          calls |-> sel.calls \o <<"pix2seq_input.Parser", "pick_dataset_fn",
                                   "parse_fn", "input_reader_generator",
                                   "reader.read">>,
          dataset |-> [decoder_fn |-> sel.decoder,
                       parser_fn |-> [is_training |-> p.is_training],
                       dataset_fn |-> p.file_type]]

build_inputs ==
    /\ phase = "inputs: ready"
    /\ input_status' = BuildInputsResult(params, oneof_strict)
    /\ phase' = "inputs: returned"
    /\ UNCHANGED <<params, oneof_strict, ckptVars, lossVars, stepVars, evalVars,
                   trainVars>>

\* ---------------------------------------------------------- SpecInputs

\* The decoder types a config may carry: the two fields of the one-of
\* config, an unset type and a string that names no field.
DecoderTypes == {"simple_decoder", "label_map_decoder", "None", "unknown_decoder"}

DataConfigs ==
    [tfds_name : {"", "coco/2017"},
     decoder : [type : DecoderTypes, regenerate_source_id : BOOLEAN],
     is_training : BOOLEAN,
     file_type : {"tfrecord", "sstable"}]

InitInputs ==
    /\ phase = "inputs: ready"
    /\ params \in DataConfigs
    /\ oneof_strict \in BOOLEAN
    /\ input_status = <<>>
    /\ CkptIdle
    /\ LossIdle
    /\ StepsIdle
    /\ EvalIdle
    /\ TrainIdle

NextInputs == build_inputs

SpecInputs == InitInputs /\ [][NextInputs]_vars

\* ------------------------------------------------------------ build_metrics

\* An evaluator object that neither self.coco_metric nor the evaluation
\* loop's state refers to any more is unreachable; it is kept as an empty
\* slot.
Collect(evals, live) ==
    [i \in 1..Len(evals) |-> IF i \in live THEN evals[i] ELSE <<>>]

\* The evaluator built in both modes.
CreatesEvaluator_Always(training) == TRUE

\* Line 222: 'if not training'.
CreatesEvaluator(training) == ~training

\* Lines 217-220: one tf_keras.metrics.Mean per name in ['loss'].  A Mean
\* keeps the sum and the number of the values it was updated with.
NewMetrics ==
    [i \in 1..1 |-> [name |-> <<"loss">>[i], kind |-> "Mean",
                     total |-> Fin(0, 1), count |-> 0]]

\* 'for m in metrics: m.update_state(all_losses[m.name])' with
\* all_losses = {'loss': loss}; nothing when metrics is None or empty.
UpdateMetrics(ms, loss) ==
    [i \in 1..Len(ms) |->
        [ms[i] EXCEPT !.total = FAdd(@, [loss |-> loss][ms[i].name]),
                      !.count = @ + 1]]

\* Pix2SeqTask.build_metrics(training): returns fresh metrics and, when
\* not training, binds self.coco_metric to a new, empty COCOEvaluator.
BuildMetrics(training) ==
    /\ metrics' = NewMetrics
    /\ IF CreatesEvaluator(training)
       THEN /\ evaluators' = Collect(Append(evaluators, <<>>),
                                      {Len(evaluators) + 1, agg_state})
            /\ coco_metric' = Len(evaluators) + 1
       ELSE UNCHANGED <<evaluators, coco_metric>>
    /\ eval_built' = (eval_built \/ ~training)
    /\ last_op' = IF training THEN "build_metrics(training=True)"
                  ELSE "build_metrics(training=False)"
    /\ UNCHANGED <<phase, model_variables, optimizer, num_replicas, logs,
                   result_resets, agg_state, agg_outcome, reduced, fed,
                   resets, ckptVars, lossVars, inputVars, trainVars>>

\* --------------------------------------------------------------- train_step

\* The training batches: what the model's forward pass (external) returns
\* for each, its labels, and model.losses.
TrainBatches == {1, 2}

TrainBatch(b) ==
    IF b = 1
    THEN [outputs |-> <<[logits |-> <<2, 0>>, finite |-> TRUE],
                        [logits |-> <<0, 0>>, finite |-> TRUE]>>,
          labels |-> [targets |-> <<0, 1>>, weights |-> <<2, 0>>],
          aux_losses |-> <<Fin(50, 1)>>]
    ELSE [outputs |-> <<[logits |-> <<0, 0>>, finite |-> TRUE]>>,
          labels |-> [targets |-> <<1>>, weights |-> <<1>>],
          aux_losses |-> <<>>]

\* d loss / d variable of batch b, as automatic differentiation (external)
\* gives it.
DLoss(b, v) == Fin(10 * b + v + 1, 1)

\* model.trainable_variables, in order: the transformer's and those of the
\* backbones that are trainable.
RECURSIVE TrainableFrom(_, _)
TrainableFrom(mdl, i) ==
    IF i > Len(mdl.backbones) THEN <<>>
    ELSE (IF mdl.backbones[i].trainable THEN <<i>> ELSE <<>>)
           \o TrainableFrom(mdl, i + 1)

trainable_variables(mdl) == <<0>> \o TrainableFrom(mdl, 1)

\* Line 257 and 263: isinstance(optimizer, LossScaleOptimizer).
IsLossScaleOptimizer(opt) == opt.kind = "LossScaleOptimizer"

\* optimizer.get_scaled_loss: the loss times the loss scale.
get_scaled_loss(opt, loss) == FMul(loss, Fin(opt.loss_scale, 1))

\* The gradients applied as tape.gradient returned them.
Unscale_Never(opt, grad) == grad

\* Lines 263-264: optimizer.get_unscaled_gradients, the gradient over the
\* loss scale, for a LossScaleOptimizer only.
Unscale(opt, grad) ==
    IF IsLossScaleOptimizer(opt) THEN FDiv(grad, Fin(opt.loss_scale, 1))
    ELSE grad

\* Lines 253-258: the loss the gradients are taken of.
ScaledLoss(opt, replicas, loss) ==
    LET scaled_loss == FDiv(loss, Fin(replicas, 1))
    IN  IF IsLossScaleOptimizer(opt) THEN get_scaled_loss(opt, scaled_loss)
        ELSE scaled_loss

\* Line 261: tape.gradient(scaled_loss, tvars) for one variable, by the
\* chain rule: d scaled_loss / d loss times d loss / d variable.
Gradient(opt, replicas, loss, b, v) ==
    FMul(FDiv(ScaledLoss(opt, replicas, loss), loss), DLoss(b, v))

\* Pix2SeqTask.train_step on batch b: the calls made, the pairs given to
\* apply_gradients and the logs.
TrainStepResult(b, mdl, opt, replicas) ==
    LET batch == TrainBatch(b)
        loss == build_losses(batch.outputs, batch.labels, batch.aux_losses)
        tvars == trainable_variables(mdl)
        scaling == IsLossScaleOptimizer(opt)
    IN  [calls |-> <<"model", "build_losses">>
                     \o (IF scaling THEN <<"get_scaled_loss">> ELSE <<>>)
                     \o <<"tape.gradient">>
                     \o (IF scaling THEN <<"get_unscaled_gradients">>
                         ELSE <<>>)
                     \o <<"apply_gradients">>,
         applied |-> [k \in 1..Len(tvars) |->
                        <<Unscale(opt, Gradient(opt, replicas, loss, b,
                                                tvars[k])),
                          tvars[k]>>],
         logs |-> [loss |-> loss]]

\* The most train steps of a run that are modelled.
MaxTrainSteps == 2

\* optimizer.apply_gradients updates every variable it is given once, and
\* counts the update.
train_step(b) ==
    /\ phase = "built"
    /\ optimizer.iterations < MaxTrainSteps
    /\ LET r == TrainStepResult(b, model, optimizer, num_replicas)
       IN  /\ step_trace' = r.calls
           /\ applied' = r.applied
           /\ logs' = r.logs
           /\ metrics' = UpdateMetrics(metrics, r.logs.loss)
           /\ model_variables' =
                [v \in DOMAIN model_variables |->
                    model_variables[v]
                      + Cardinality({k \in 1..Len(r.applied) :
                                       r.applied[k][2] = v})]
    /\ optimizer' = [optimizer EXCEPT !.iterations = @ + 1]
    /\ train_batch' = b
    /\ last_op' = "train_step"
    /\ UNCHANGED <<phase, num_replicas, ckptVars, lossVars, inputVars,
                   evalVars>>

\* ----------------------------------------------------------- SpecTrain

ReplicaCounts == {1, 2, 8}

Optimizers ==
    {[kind |-> "SGD", loss_scale |-> 1, iterations |-> 0],
     [kind |-> "LossScaleOptimizer", loss_scale |-> 4, iterations |-> 0]}

\* Configs without checkpoints, whose backbones may be frozen.
TrainConfigs ==
    {c \in TaskConfigs(BOOLEAN) :
        /\ c.init_checkpoint_modules = "all"
        /\ c.init_checkpoint = ""
        /\ \A i \in 1..Len(c.backbones) :
             /\ c.backbones[i].init_checkpoint = ""
             /\ c.backbones[i].type = "resnet"}

InitTrain ==
    /\ phase = "configured"
    /\ task_config \in TrainConfigs
    /\ model = NoModel
    /\ uvit_raises = FALSE
    /\ init_status = NoInit
    /\ model_variables = <<>>
    /\ optimizer \in Optimizers
    /\ num_replicas \in ReplicaCounts
    /\ metrics = <<>>
    /\ logs = <<>>
    /\ last_op = "none"
    /\ TrainIdle
    /\ EvalIdle
    /\ LossIdle
    /\ InputsIdle

NextTrain ==
    \/ build_model
    \/ BuildMetrics(TRUE)
    \/ \E b \in TrainBatches : train_step(b)

SpecTrain == InitTrain /\ [][NextTrain]_vars

\* ---------------------------------------------------------- validation_step

\* The validation batches: labels['id'], labels['image_info'] (row 1 the
\* original height and width, row 2 the scaled ones), labels['classes']
\* (0 is padding), one ground-truth point per box, and what the model and
\* utils.decode_object_seq_to_bbox (both external) make of the batch.
ValBatches == {1, 2}

Labels(b) ==
    [id |-> 100 + b,
     image_info |-> <<<<8, 6>>, IF b = 1 THEN <<4, 4>> ELSE <<4, 2>>>>,
     classes |-> IF b = 1 THEN <<3, 0>> ELSE <<1, 2>>,
     gt_boxes |-> IF b = 1 THEN <<<<1, 1>>, <<0, 0>>>>
                  ELSE <<<<2, 1>>, <<3, 3>>>>,
     is_crowd |-> <<FALSE, FALSE>>]

\* features.shape[1:3]
image_size == <<4, 4>>

\* utils.decode_object_seq_to_bbox(logits, tokens, ...): classes, one point
\* per box, scores (hundredths) and the number of boxes.
Decoded(b) ==
    [pred_classes |-> <<b>>, pred_bboxes |-> <<<<1, 2>>>>,
     scores |-> <<90>>, pred_num |-> 1]

\* Lines 318-322: scale = image_size / image_info[1] * image_info[0], and
\* utils.scale_points multiplies every point by it.
ScaledBoxes(b) ==
    LET info == Labels(b).image_info
        scale == [c \in 1..2 |->
                    FMul(FDiv(Fin(image_size[c], 1), Fin(info[2][c], 1)),
                         Fin(info[1][c], 1))]
        boxes == Decoded(b).pred_bboxes
    IN  [k \in 1..Len(boxes) |->
            [c \in 1..2 |-> FMul(Fin(boxes[k][c], 1), scale[c])]]

\* The loss the commented-out build_losses call of lines 294-295 would give.
ValidationLoss_Computed == Fin(69, 1)

\* Line 296: 'loss = 0.0'.
ValidationLoss == Fin(0, 1)

\* Lines 324-331.
Predictions(b) ==
    [detection_boxes |-> ScaledBoxes(b),
     detection_scores |-> Decoded(b).scores,
     detection_classes |-> Decoded(b).pred_classes,
     num_detections |-> Decoded(b).pred_num,
     source_id |-> Labels(b).id,
     image_info |-> Labels(b).image_info]

\* Lines 333-343.
GroundTruths(b) ==
    [source_id |-> Labels(b).id,
     height |-> Labels(b).image_info[1][1],
     width |-> Labels(b).image_info[1][2],
     num_detections |->
        Cardinality({k \in 1..Len(Labels(b).classes) :
                       Labels(b).classes[k] > 0}),
     boxes |-> Labels(b).gt_boxes,
     classes |-> Labels(b).classes,
     is_crowds |-> Labels(b).is_crowd]

\* Lines 296-306 and 344: the logs of a validation step on batch b.
ValidationLogs(b, replicas) ==
    [loss |-> FMul(ValidationLoss, Fin(replicas, 1)),
     predictions |-> Predictions(b),
     ground_truths |-> GroundTruths(b)]

\* The most validation steps of one evaluation that are modelled.
MaxValSteps == 2

\* Pix2SeqTask.validation_step on batch b with the current metrics.  The
\* loop hands the logs to aggregate_logs before it runs the next step.
validation_step(b) ==
    /\ logs = <<>>
    /\ \A i \in 1..Len(metrics) : metrics[i].count < MaxValSteps
    /\ logs' = ValidationLogs(b, num_replicas)
    /\ metrics' = UpdateMetrics(metrics, logs'.loss)
    /\ last_op' = "validation_step"
    /\ UNCHANGED <<phase, model_variables, optimizer, num_replicas, evalVars,
                   ckptVars, lossVars, inputVars, trainVars>>

\* ----------------------------------------------------------- aggregate_logs

\* aggregate_logs without its reset_states call.
ResetStates_Skip(evals, obj) == evals

\* Line 358: self.coco_metric.reset_states().
ResetStates(evals, obj) == [evals EXCEPT ![obj] = <<>>]

\* Lines 361-363: state.update_state(step_outputs['ground_truths'],
\* step_outputs['predictions']): the evaluator appends the pair.
UpdateState(evals, obj, step_outputs) ==
    [evals EXCEPT ![obj] =
        Append(@, [groundtruths |-> step_outputs["ground_truths"],
                   predictions |-> step_outputs["predictions"]])]

\* Pix2SeqTask.aggregate_logs(state, step_outputs): the state returned,
\* the evaluators afterwards and the number of resets made.  With
\* state=None and no coco_metric attribute, line 358 raises AttributeError.
AggregateLogs(state, step_outputs) ==
    IF state = 0 /\ coco_metric = 0
    THEN [outcome |-> "AttributeError", state |-> 0,
          evaluators |-> evaluators, resets |-> 0]
    ELSE IF state = 0
    THEN [outcome |-> "ok", state |-> coco_metric,
          evaluators |-> UpdateState(ResetStates(evaluators, coco_metric),
                                     coco_metric, step_outputs),
          resets |-> 1]
    ELSE [outcome |-> "ok", state |-> state,
          evaluators |-> UpdateState(evaluators, state, step_outputs),
          resets |-> 0]

\* The first aggregate_logs call of an evaluation: state=None.
aggregate_logs_first ==
    /\ logs # <<>>
    /\ LET r == AggregateLogs(0, logs) IN
       /\ agg_outcome' = r.outcome
       /\ agg_state' = r.state
       /\ evaluators' = Collect(r.evaluators, {coco_metric, r.state})
       /\ IF r.outcome = "ok"
          THEN fed' = <<logs>> /\ resets' = r.resets
          ELSE fed' = <<>> /\ resets' = 0
    /\ logs' = <<>>
    /\ last_op' = "aggregate_logs(None)"
    /\ UNCHANGED <<phase, model_variables, optimizer, num_replicas, metrics,
                   coco_metric, result_resets, reduced, eval_built,
                   ckptVars, lossVars, inputVars, trainVars>>

\* A later aggregate_logs call: state is what the previous call returned.
aggregate_logs_next ==
    /\ logs # <<>>
    /\ agg_state # 0
    /\ Len(fed) < MaxValSteps
    /\ LET r == AggregateLogs(agg_state, logs) IN
       /\ agg_outcome' = r.outcome
       /\ agg_state' = r.state
       /\ evaluators' = r.evaluators
       /\ fed' = Append(fed, logs)
       /\ resets' = resets + r.resets
    /\ logs' = <<>>
    /\ last_op' = "aggregate_logs(state)"
    /\ UNCHANGED <<phase, model_variables, optimizer, num_replicas, metrics,
                   coco_metric, result_resets, reduced, eval_built,
                   ckptVars, lossVars, inputVars, trainVars>>

\* Pix2SeqTask.reduce_aggregated_logs(aggregated_logs): the evaluator's
\* result() over what it has accumulated; the evaluation is then over.
\* Whether result() leaves the evaluator cleared is up to the evaluator.
reduce_aggregated_logs ==
    /\ logs = <<>>
    /\ agg_state # 0
    /\ reduced' = [over |-> evaluators[agg_state]]
    /\ evaluators' = Collect(IF result_resets
                             THEN [evaluators EXCEPT ![agg_state] = <<>>]
                             ELSE evaluators, {coco_metric})
    /\ agg_state' = 0
    /\ last_op' = "reduce_aggregated_logs"
    /\ UNCHANGED <<phase, model_variables, optimizer, num_replicas, metrics, logs,
                   coco_metric, result_resets, agg_outcome, fed, resets,
                   eval_built, ckptVars, lossVars, inputVars, trainVars>>

\* ------------------------------------------------------------ SpecEval

\* The most COCOEvaluator objects build_metrics creates in a run.
MaxEvaluators == 2

build_metrics ==
    \E training \in BOOLEAN :
        /\ training \/ Len(evaluators) < MaxEvaluators
        /\ BuildMetrics(training)

InitEval ==
    /\ phase = "evaluating"
    /\ model_variables = [v \in 0..1 |-> 3]
    /\ optimizer = [kind |-> "sgd", loss_scale |-> 1, iterations |-> 3]
    /\ num_replicas \in ReplicaCounts
    /\ metrics = <<>>
    /\ logs = <<>>
    /\ last_op = "none"
    /\ coco_metric = 0
    /\ evaluators = <<>>
    /\ result_resets \in BOOLEAN
    /\ agg_state = 0
    /\ agg_outcome = "none"
    /\ reduced = <<>>
    /\ fed = <<>>
    /\ resets = 0
    /\ eval_built = FALSE
    /\ CkptIdle
    /\ LossIdle
    /\ InputsIdle
    /\ TrainIdle

NextEval ==
    \/ build_metrics
    \/ \E b \in ValBatches : validation_step(b)
    \/ aggregate_logs_first
    \/ aggregate_logs_next
    \/ reduce_aggregated_logs

SpecEval == InitEval /\ [][NextEval]_vars

\* ------------------------------------------------- claims on train_step

\* The total loss of each training batch: (2 * 0.13) / 2 + 0.50 and
\* 0.69 / 1, in hundredths.
TotalLoss(b) == IF b = 1 THEN Fin(63, 1) ELSE Fin(69, 1)

\* The variables the config leaves trainable.
ConfiguredTrainable ==
    {0} \cup {i \in 1..Len(task_config.backbones) :
                ~task_config.backbones[i].freeze}

\* C8: every train_step runs forward pass, loss, backward pass and
\* optimizer update in that order and applies gradients once, to exactly
\* the model's trainable variables; with a LossScaleOptimizer the loss is
\* scaled before the gradients are taken and the gradients are unscaled
\* before they are applied, so that every applied gradient is d loss / d
\* variable over the replica count; with any other optimizer there is no
\* scaling and no unscaling; the loss logged and fed to the 'loss' metric
\* is the total loss, neither divided by the replica count nor scaled.
C8_TrainStepOrder ==
    [][last_op' = "train_step" =>
        /\ step_trace' =
             (IF optimizer.kind = "LossScaleOptimizer"
              THEN <<"model", "build_losses", "get_scaled_loss",
                     "tape.gradient", "get_unscaled_gradients",
                     "apply_gradients">>
              ELSE <<"model", "build_losses", "tape.gradient",
                     "apply_gradients">>)
        /\ optimizer'.iterations = optimizer.iterations + 1
        /\ {applied'[k][2] : k \in 1..Len(applied')} = ConfiguredTrainable
        /\ Len(applied') = Cardinality(ConfiguredTrainable)
        /\ \A v \in DOMAIN model_variables :
             model_variables'[v] =
               model_variables[v]
                 + (IF v \in ConfiguredTrainable THEN 1 ELSE 0)
        /\ \A k \in 1..Len(applied') :
             FMul(applied'[k][1], Fin(num_replicas, 1))
               = DLoss(train_batch', applied'[k][2])
        /\ logs'.loss = TotalLoss(train_batch')
        /\ Len(metrics') = Len(metrics)
        /\ \A i \in 1..Len(metrics) :
             /\ metrics'[i].total
                  = FAdd(metrics[i].total, TotalLoss(train_batch'))
             /\ metrics'[i].count = metrics[i].count + 1
    ]_vars

\* A second step under a LossScaleOptimizer and two replicas, on a model
\* whose first backbone is frozen: two of the three variables are updated.
C8_Witness ==
    /\ last_op = "train_step"
    /\ optimizer.kind = "LossScaleOptimizer"
    /\ optimizer.iterations = 2
    /\ num_replicas = 2
    /\ Len(task_config.backbones) = 2
    /\ task_config.backbones[1].freeze
    /\ ~task_config.backbones[2].freeze
    /\ train_batch = 1
    /\ applied = <<<<Fin(11, 2), 0>>, <<Fin(13, 2), 2>>>>
    /\ model_variables = [v \in 0..2 |-> IF v = 1 THEN 0 ELSE 2]
    /\ logs.loss = Fin(63, 1)
    /\ Len(metrics) = 1
    /\ metrics[1].count = 2

\* ------------------------------------------ claims on the evaluation loop

\* What an evaluator holds after being fed the step outputs outs, in order.
PairsOf(outs) ==
    [k \in 1..Len(outs) |-> [groundtruths |-> outs[k].ground_truths,
                              predictions |-> outs[k].predictions]]

\* C5: over one evaluation (aggregate_logs first with state=None, then with
\* the state it returned, then reduce_aggregated_logs) the evaluator is
\* reset exactly once, in the first call, and what the evaluator holds, and
\* what the reduction is computed over, is exactly the step outputs passed
\* since that state=None call, once each and in order: nothing accumulated
\* before the reset is left.
C5_EvaluationCoversItsSteps ==
    /\ agg_state # 0 =>
         /\ fed # <<>>
         /\ resets = 1
         /\ evaluators[agg_state] = PairsOf(fed)
    /\ last_op = "reduce_aggregated_logs" =>
         /\ resets = 1
         /\ reduced.over = PairsOf(fed)

\* An evaluation of two steps, reduced, on an evaluator whose result()
\* does not clear it.
C5_Witness ==
    /\ last_op = "reduce_aggregated_logs"
    /\ ~result_resets
    /\ Len(fed) = 2
    /\ fed[1].predictions.source_id = 102
    /\ fed[2].predictions.source_id = 101
    /\ Len(reduced.over) = 2
    /\ reduced.over[1].groundtruths.source_id = 102

\* C9: validation_step changes neither the model's variables nor the
\* optimizer; for every batch and replica count the loss it logs and feeds
\* to the 'loss' metric is 0; its logs carry 'predictions' and
\* 'ground_truths' with the source_id of the batch in both, and these two
\* entries are what a successful aggregate_logs call hands to the evaluator.
C9_ValidationStepFrame ==
    [][/\ last_op' = "validation_step" =>
           /\ model_variables' = model_variables
           /\ optimizer' = optimizer
           /\ logs'.loss = Fin(0, 1)
           /\ {"predictions", "ground_truths"} \subseteq DOMAIN logs'
           /\ logs'.predictions.source_id = logs'.ground_truths.source_id
           /\ \E b \in ValBatches :
                logs'.predictions.source_id = Labels(b).id
           /\ Len(metrics') = Len(metrics)
           /\ \A i \in 1..Len(metrics) :
                /\ metrics'[i].total = metrics[i].total
                /\ metrics'[i].count = metrics[i].count + 1
       /\ (last_op' \in {"aggregate_logs(None)", "aggregate_logs(state)"}
           /\ agg_outcome' = "ok") =>
           LET acc == evaluators'[agg_state'] IN
           /\ acc[Len(acc)].groundtruths = logs.ground_truths
           /\ acc[Len(acc)].predictions = logs.predictions
           /\ acc[Len(acc)].groundtruths.source_id
                = acc[Len(acc)].predictions.source_id
      ]_vars

\* A second validation step under eight replicas, with a 'loss' metric.
C9_Witness ==
    /\ last_op = "validation_step"
    /\ num_replicas = 8
    /\ logs.loss = Fin(0, 1)
    /\ logs.predictions.source_id = 102
    /\ Len(metrics) = 1
    /\ metrics[1].count = 2
    /\ metrics[1].total = Fin(0, 1)

\* C10: the COCO evaluator exists on the task exactly when build_metrics
\* has been called with training=False; build_metrics returns exactly one
\* fresh Mean metric named 'loss' in both modes; and an aggregate_logs call
\* with state=None before any build_metrics(training=False) fails and
\* accumulates nothing.
C10_EvaluatorIffBuilt ==
    /\ (coco_metric # 0) <=> eval_built
    /\ last_op \in {"build_metrics(training=True)",
                     "build_metrics(training=False)"} =>
         /\ Len(metrics) = 1
         /\ metrics[1].name = "loss"
         /\ metrics[1].kind = "Mean"
         /\ metrics[1].count = 0
    /\ ~eval_built =>
         /\ agg_outcome \in {"none", "AttributeError"}
         /\ last_op = "aggregate_logs(None)" => agg_outcome = "AttributeError"
         /\ agg_state = 0
         /\ fed = <<>>
         /\ evaluators = <<>>

\* aggregate_logs(None) after build_metrics(training=True) only.
C10_Witness ==
    /\ last_op = "aggregate_logs(None)"
    /\ agg_outcome = "AttributeError"
    /\ ~eval_built
    /\ Len(metrics) = 1
    /\ metrics[1].count = 1

\* ----------------------------------------------- claims on build_inputs

InputsReturned == phase = "inputs: returned"

\* How often name occurs in the calls of build_inputs.
CallCount(name) ==
    Cardinality({k \in 1..Len(input_status.calls) :
                   input_status.calls[k] = name})

DecoderConstructors == {"tfds_factory.get_detection_decoder",
                        "TfExampleDecoder", "TfExampleDecoderLabelMap"}

\* C7: build_inputs selects exactly one decoder: a non-empty tfds_name
\* takes precedence and the decoder config is then not read; otherwise
\* 'simple_decoder' gives the raw-example decoder and 'label_map_decoder'
\* the label-mapped one; any other type raises ValueError before a parser,
\* a reader or a dataset is built.
C7_DecoderSelection ==
    InputsReturned =>
        /\ params.tfds_name # "" =>
             /\ input_status.outcome = "ok"
             /\ input_status.decoder.kind = "tfds"
             /\ CallCount("decoder.get") = 0
        /\ (params.tfds_name = "" /\ params.decoder.type = "simple_decoder")
             => /\ input_status.outcome = "ok"
                /\ input_status.decoder.kind = "TfExampleDecoder"
        /\ (params.tfds_name = ""
             /\ params.decoder.type = "label_map_decoder")
             => /\ input_status.outcome = "ok"
                /\ input_status.decoder.kind = "TfExampleDecoderLabelMap"
        /\ (params.tfds_name = ""
             /\ params.decoder.type
                  \notin {"simple_decoder", "label_map_decoder"})
             => /\ input_status.outcome
                     \in {"ValueError: Unknown decoder type",
                          "ValueError: not a valid choice"}
                /\ input_status.dataset = <<>>
                /\ \A k \in 1..Len(input_status.calls) :
                     input_status.calls[k] = "decoder.get"
        /\ input_status.outcome = "ok" =>
             /\ Cardinality({k \in 1..Len(input_status.calls) :
                   input_status.calls[k] \in DecoderConstructors}) = 1
             /\ input_status.dataset.decoder_fn = input_status.decoder

\* A tfds name together with a decoder type that would raise on its own.
C7_Witness ==
    /\ InputsReturned
    /\ params.tfds_name = "coco/2017"
    /\ params.decoder.type = "unknown_decoder"
    /\ input_status.outcome = "ok"
    /\ input_status.decoder.kind = "tfds"
    /\ input_status.calls[Len(input_status.calls)] = "reader.read"

\* ----------------------------------------------- claims on build_losses

LossReturned == phase = "loss: returned"

\* The per-position cross-entropies of the call, in hundredths.
PositionLoss(i) == CrossEntropy(loss_args.targets[i], loss_args.outputs[i])

RECURSIVE SumOver(_, _)
\* f[1] + ... + f[n] over integers.
SumOver(f, n) == IF n = 0 THEN 0 ELSE f[n] + SumOver(f, n - 1)

\* The call's arguments with target t and output o at position i.
LossArgsWith(i, t, o) ==
    [loss_args EXCEPT !.targets[i] = t, !.outputs[i] = o]

LossOf(args) ==
    build_losses(args.outputs,
                 [targets |-> args.targets, weights |-> args.weights],
                 args.aux_losses)

\* The returned value is sum(loss * weight) / sum(weight) + sum(aux): with
\* every per-position loss finite and a positive weight sum it is the
\* fraction v with v * W = sum(l_i * w_i) + aux * W; it is NaN when the
\* weights sum to 0 or some per-position loss is not finite.
LossIsWeightedAverage ==
    LET n == Len(loss_args.outputs)
        W == SumOver(loss_args.weights, n)
        aux == SumOver([j \in 1..Len(loss_args.aux_losses) |->
                          loss_args.aux_losses[j].n],
                       Len(loss_args.aux_losses))
        allFinite == \A i \in 1..n : PositionLoss(i).k = "fin"
    IN  IF allFinite /\ W > 0
        THEN /\ loss_value.k = "fin"
             /\ loss_value.n * W =
                  loss_value.d
                    * (SumOver([i \in 1..n |->
                                  PositionLoss(i).n * loss_args.weights[i]], n)
                       + aux * W)
        ELSE loss_value = NaN

\* C6 as stated: build_losses returns the weight-masked average of the
\* per-position cross-entropy plus the summed auxiliary losses, and changing
\* the target token or the model output at any position of weight 0 does
\* not change the returned loss.
C6_Original ==
    LossReturned =>
        /\ LossIsWeightedAverage
        /\ \A i \in 1..Len(loss_args.outputs) :
             loss_args.weights[i] = 0 =>
               \A t \in Targets, o \in Outputs :
                  LossOf(LossArgsWith(i, t, o)) = loss_value

\* C6 as amended: build_losses returns the weight-masked average of the
\* per-position cross-entropy plus the summed auxiliary losses (NaN when the
\* weights sum to 0), and changing the target token or the model output at
\* a position of weight 0 does not change the returned loss as long as the
\* model output at that position is finite before and after the change; a
\* NaN or infinite output at a position of weight 0 makes the loss NaN.
C6_MaskedAverage ==
    LossReturned =>
        /\ LossIsWeightedAverage
        /\ \A i \in 1..Len(loss_args.outputs) :
             loss_args.weights[i] = 0 =>
               /\ loss_args.outputs[i].finite =>
                    \A t \in Targets, o \in Outputs :
                       o.finite => LossOf(LossArgsWith(i, t, o)) = loss_value
               /\ ~loss_args.outputs[i].finite => loss_value = NaN

\* Two positions, the second of weight 0, one auxiliary loss: the loss is
\* (2 * 0.13) / 2 + 0.50 = 0.63.
C6_Witness ==
    /\ LossReturned
    /\ loss_args.outputs = <<[logits |-> <<2, 0>>, finite |-> TRUE],
                             [logits |-> <<0, 0>>, finite |-> TRUE]>>
    /\ loss_args.targets = <<0, 1>>
    /\ loss_args.weights = <<2, 0>>
    /\ loss_args.aux_losses = <<Fin(50, 1)>>
    /\ loss_value = Fin(63, 1)

\* ------------------------------------------------- claims on initialize

Initialized == phase = "initialized"

\* The config passes the three checks of lines 99-117.
Accepted ==
    /\ task_config.init_checkpoint_modules \in {"all", "partial", ""}
    /\ ~(task_config.init_checkpoint # ""
         /\ \E i \in 1..Len(task_config.backbones) :
                task_config.backbones[i].init_checkpoint # "")

\* The positions in the restore log that restore target t.
RestoresOf(t) ==
    {k \in 1..Len(init_status.restores) : init_status.restores[k].target = t}

\* The checkpoint file a configured path stands for.
FileOf(path) ==
    CASE path = "full_dir" -> "full_dir/ckpt-2"
      [] path = "part_dir" -> "part_dir/ckpt-7"
      [] OTHER -> path

Untouched ==
    /\ model.head_restored_from = "init"
    /\ \A i \in DOMAIN model.restored_from : model.restored_from[i] = "init"

ValueErrors == {"ValueError: deprecated", "ValueError: unsupported",
                "ValueError: global and backbone"}

\* C1 as stated: for every accepted configuration a global checkpoint gives
\* exactly one whole-model restore and no backbone restore; without one,
\* every backbone with a checkpoint is restored exactly once from its own
\* checkpoint and every backbone without one is skipped and left untouched.
\* (Read with a UVit.load_checkpoint that does not raise.)
C1_Original ==
    (Initialized /\ Accepted /\ ~uvit_raises) =>
        IF task_config.init_checkpoint # ""
        THEN /\ Cardinality(RestoresOf(0)) = 1
             /\ Len(init_status.restores) = 1
        ELSE /\ RestoresOf(0) = {}
             /\ \A i \in 1..Len(task_config.backbones) :
                  IF task_config.backbones[i].init_checkpoint = ""
                  THEN RestoresOf(i) = {} /\ model.restored_from[i] = "init"
                  ELSE /\ Cardinality(RestoresOf(i)) = 1
                       /\ \A k \in RestoresOf(i) :
                            init_status.restores[k].ckpt =
                              FileOf(task_config.backbones[i].init_checkpoint)

\* C1 as amended: a global checkpoint gives exactly one whole-model restore
\* and no backbone restore.  Without one, the backbones are visited in
\* position order: a backbone without a checkpoint is never restored and
\* stays untouched, a backbone with one is restored at most once and from
\* its own checkpoint, exactly once when initialize returns normally; the
\* only backbones with a checkpoint that are not restored are those after
\* the one whose restore raised.
C1_GlobalXorBackbones ==
    (Initialized /\ Accepted) =>
        IF task_config.init_checkpoint # ""
        THEN /\ Cardinality(RestoresOf(0)) = 1
             /\ Len(init_status.restores) = 1
        ELSE /\ RestoresOf(0) = {}
             /\ \A k \in 1..Len(init_status.restores) - 1 :
                  init_status.restores[k].target
                    < init_status.restores[k + 1].target
             /\ \A i \in 1..Len(task_config.backbones) :
                  IF task_config.backbones[i].init_checkpoint = ""
                  THEN RestoresOf(i) = {} /\ model.restored_from[i] = "init"
                  ELSE /\ Cardinality(RestoresOf(i)) <= 1
                       /\ \A k \in RestoresOf(i) :
                            /\ init_status.restores[k].ckpt =
                                 FileOf(task_config.backbones[i].init_checkpoint)
                            /\ model.restored_from[i] =
                                 init_status.restores[k].ckpt
                       /\ init_status.outcome = "ok"
                            => Cardinality(RestoresOf(i)) = 1
                       /\ RestoresOf(i) = {} =>
                            /\ init_status.outcome # "ok"
                            /\ init_status.restores # <<>>
                            /\ init_status.restores[
                                 Len(init_status.restores)].target < i

\* Two backbones, the first without a checkpoint, the second with one: only
\* the second is restored, from the latest checkpoint of its directory.
C1_Witness ==
    /\ Initialized
    /\ task_config.init_checkpoint = ""
    /\ Len(task_config.backbones) = 2
    /\ task_config.backbones[1].init_checkpoint = ""
    /\ task_config.backbones[2].init_checkpoint = "full_dir"
    /\ init_status.outcome = "ok"
    /\ init_status.restores = <<Restore("restore", 2, "full_dir/ckpt-2")>>

\* C2 as stated: for every accepted init_checkpoint_modules value, and for
\* the global restore as for a backbone restore, a checkpoint that leaves
\* existing model objects unmatched is accepted: initialize does not raise
\* on it.
C2_Original ==
    (Initialized /\ Accepted) => init_status.outcome # "AssertionError"

\* C2 as amended: a checkpoint that leaves existing model objects unmatched
\* is accepted by the global restore only under init_checkpoint_modules =
\* 'partial'; under 'all' and '' the global restore raises AssertionError on
\* it, and so does the restore of every backbone that is not a uvit,
\* whatever the modules are.  A checkpoint that matches every existing
\* object never raises.
C2_PartialOnlyGlobalPartial ==
    (Initialized /\ Accepted) =>
        /\ (task_config.init_checkpoint # ""
             /\ task_config.init_checkpoint_modules = "partial")
              => init_status.outcome = "ok"
        /\ (task_config.init_checkpoint # ""
             /\ task_config.init_checkpoint_modules # "partial")
              => (init_status.outcome = "AssertionError"
                    <=> ~ExistingObjectsMatched(
                           FileOf(task_config.init_checkpoint)))
        /\ \A k \in 1..Len(init_status.restores) :
             LET r == init_status.restores[k] IN
             (r.target > 0 /\ r.op = "restore"
                /\ ~ExistingObjectsMatched(r.ckpt))
               => /\ init_status.outcome = "AssertionError"
                  /\ k = Len(init_status.restores)
        /\ init_status.outcome = "AssertionError"
             => ~ExistingObjectsMatched(
                   init_status.restores[Len(init_status.restores)].ckpt)

\* The tolerant case: an incomplete global checkpoint under 'partial'.
C2_Witness ==
    /\ Initialized
    /\ task_config.init_checkpoint = "part_dir"
    /\ task_config.init_checkpoint_modules = "partial"
    /\ init_status.outcome = "ok"
    /\ model.head_restored_from = "part_dir/ckpt-7"

\* C3: a global checkpoint together with a checkpoint on some backbone
\* makes initialize raise ValueError (the 'cannot be specified at the same
\* time' one when the modules are accepted), and when it is raised no
\* checkpoint path was resolved, nothing was restored and the model's
\* weights are as built.
C3_GlobalAndBackboneRejected ==
    (/\ Initialized
     /\ task_config.init_checkpoint # ""
     /\ \E i \in 1..Len(task_config.backbones) :
           task_config.backbones[i].init_checkpoint # "")
      => /\ init_status.outcome \in ValueErrors
         /\ task_config.init_checkpoint_modules \in {"all", "partial", ""}
              => init_status.outcome = "ValueError: global and backbone"
         /\ init_status.restores = <<>>
         /\ init_status.lookups = <<>>
         /\ Untouched

\* A global checkpoint and a checkpoint on the second of two backbones.
C3_Witness ==
    /\ Initialized
    /\ task_config.init_checkpoint_modules = "all"
    /\ task_config.init_checkpoint = "full.ckpt"
    /\ Len(task_config.backbones) = 2
    /\ task_config.backbones[1].init_checkpoint = ""
    /\ task_config.backbones[2].init_checkpoint = "full.ckpt"
    /\ init_status.outcome = "ValueError: global and backbone"

\* C4: init_checkpoint_modules is accepted only from {'all','partial',''}:
\* 'backbone' raises the 'deprecated' ValueError, any other value outside
\* the set the 'Unsupported' one, a value of the set neither; both are
\* raised with nothing resolved or restored, whatever checkpoints are
\* configured.
C4_ModulesValidated ==
    Initialized =>
        /\ task_config.init_checkpoint_modules = "backbone"
             => init_status.outcome = "ValueError: deprecated"
        /\ task_config.init_checkpoint_modules
               \notin {"all", "partial", "", "backbone"}
             => init_status.outcome = "ValueError: unsupported"
        /\ task_config.init_checkpoint_modules \in {"all", "partial", ""}
             => init_status.outcome
                  \notin {"ValueError: deprecated", "ValueError: unsupported"}
        /\ init_status.outcome
               \in {"ValueError: deprecated", "ValueError: unsupported"}
             => /\ init_status.restores = <<>>
                /\ init_status.lookups = <<>>
                /\ Untouched

\* An unsupported value with a global checkpoint and a backbone checkpoint
\* configured.
C4_Witness ==
    /\ Initialized
    /\ task_config.init_checkpoint_modules = "decoder"
    /\ task_config.init_checkpoint = "full.ckpt"
    /\ Len(task_config.backbones) = 1
    /\ task_config.backbones[1].init_checkpoint = "part.ckpt"
    /\ init_status.outcome = "ValueError: unsupported"
    /\ init_status.restores = <<>>

====
